---- MODULE Spec2Model ----
(***************************************************************************)
(* Export / import (backup and restore) engine of the intake API server.  *)
(* The relational store is a record of tables, each table a set of rows.  *)
(* HandleImportData and HandleExportData are operators over a store; the  *)
(* state machine applies them to the committed store.                     *)
(***************************************************************************)
EXTENDS Integers, Sequences, FiniteSets, TLC

\* ------------------------------------------------------------------ bounds
MaxId    == 1   \* row identifiers are 1..MaxId
MaxClock == 2   \* wall clock values are 1..MaxClock
MaxRows  == 2   \* rows a client puts into bundles during one behaviour
MaxClients == 2 \* requests that the server handles at the same time

\* ---------------------------------------------------------- program values
DefaultUserID == "00000000-0000-0000-0000-000000000001"
OtherUserID   == "00000000-0000-0000-0000-000000000002"
NULL          == "NULL"     \* SQL NULL of a nullable column
ZeroTime      == 0          \* Go's zero time.Time (an absent JSON timestamp)

Ids   == 1..MaxId
Users == {DefaultUserID, OtherUserID}

CollectionOrder ==
  << "food_items", "recipes", "recipe_ingredients", "recipe_portions",
     "presets", "preset_items", "log_entries", "body_weights",
     "daily_activity" >>

Collections == { CollectionOrder[i] : i \in 1..Len(CollectionOrder) }

\* ------------------------------------------------------------------- dates
\* A DATE column holds a day number; the bundle carries its "2006-01-02" text.
DateText == << "2024-01-01", "2024-01-02" >>

FormatDate(d) == DateText[d]

DateParses(s) == \E d \in 1..Len(DateText) : DateText[d] = s

ParseDate(s) == CHOOSE d \in 1..Len(DateText) : DateText[d] = s

\* ------------------------------------------------------------------- store
\* Schema after the init script: every table empty, the local user seeded.
SchemaStore ==
  [ users              |-> { [ id |-> DefaultUserID, email |-> "local@intake",
                               display_name |-> "Local User", created_at |-> 1 ] },
    food_items         |-> {},
    recipes            |-> {},
    recipe_ingredients |-> {},
    recipe_portions    |-> {},
    presets            |-> {},
    preset_items       |-> {},
    log_entries        |-> {},
    body_weights       |-> {},
    daily_activity     |-> {} ]

\* Primary key (or unique key) columns that an ON CONFLICT clause names.
ConflictCols(coll) ==
  IF coll = "daily_activity" THEN {"user_id", "date"} ELSE {"id"}

\* Columns listed after DO UPDATE SET in the import's upsert of a collection.
UpdateCols(coll) ==
  CASE coll = "food_items" ->
         { "user_id", "name", "brand", "serving_label", "source",
           "calories_per_serving", "protein_g_per_serving",
           "carbs_g_per_serving", "fat_g_per_serving", "fiber_g_per_serving" }
    [] coll = "recipes" -> { "user_id", "name", "instructions", "yield_count" }
    [] coll = "recipe_ingredients" -> { "recipe_id", "food_item_id", "amount_g" }
    [] coll = "recipe_portions" -> { "recipe_id", "name", "portion_count" }
    [] coll = "presets" -> { "user_id", "name", "pinned" }
    [] coll = "preset_items" -> { "preset_id", "kind", "ref_id", "servings" }
    [] coll = "log_entries" ->
         { "user_id", "occurred_at", "kind", "ref_id", "servings", "meal", "note" }
    [] coll = "body_weights" ->
         { "user_id", "measured_at", "weight_kg", "source", "note" }
    [] coll = "daily_activity" -> { "steps", "active_calories_kcal_est", "source" }

SameKey(coll, r1, r2) == \A c \in ConflictCols(coll) : r1[c] = r2[c]

\* Variant: the incoming row replaces the stored row of its key altogether.
UpsertReplacesRow(table, coll, row, cols) ==
  { e \in table : ~SameKey(coll, e, row) } \cup {row}

\* INSERT ... ON CONFLICT (key) DO UPDATE SET cols = EXCLUDED.cols
\* Variant: the import replaces the collection by the row it writes.
UpsertIntoEmptied(table, coll, row, cols) == {row}

\* Variant: the insert has no ON CONFLICT clause and the table no unique key.
UpsertAddsRow(table, coll, row, cols) == table \cup {row}

Upsert(table, coll, row, cols) ==
  IF \E e \in table : SameKey(coll, e, row)
    THEN LET e == CHOOSE x \in table : SameKey(coll, x, row)
             u == [ f \in DOMAIN e |-> IF f \in cols THEN row[f] ELSE e[f] ]
         IN  (table \ {e}) \cup {u}
    ELSE table \cup {row}

\* Variant: the ensure-user statement replaces an existing user row.
EnsureUserOverwrites(S, uid, dbnow) ==
  [ S EXCEPT !.users = { u \in @ : u.id # uid } \cup
      { [ id |-> uid, email |-> NULL, display_name |-> "Imported User",
          created_at |-> dbnow ] } ]

\* INSERT INTO users ... ON CONFLICT (id) DO NOTHING
EnsureUser(S, uid, dbnow) ==
  IF \E u \in S.users : u.id = uid
    THEN S
    ELSE [ S EXCEPT !.users = @ \cup
             { [ id |-> uid, email |-> NULL, display_name |-> "Imported User",
                 created_at |-> dbnow ] } ]

\* Variant: the schema declares no foreign key.
ForeignKeysUnchecked(S, coll, row) == TRUE

\* Variant: a recipe may not take the id of a food item (one id space).
ForeignKeysAndDistinctIds(S, coll, row) ==
  LET userOk(u) == \E x \in S.users : x.id = u
      recipeOk(r) == \E x \in S.recipes : x.id = r
  IN CASE coll = "food_items" -> row.user_id = NULL \/ userOk(row.user_id)
       [] coll = "recipes" ->
            userOk(row.user_id) /\ ~\E x \in S.food_items : x.id = row.id
       [] coll = "recipe_ingredients" ->
            recipeOk(row.recipe_id) /\ \E x \in S.food_items : x.id = row.food_item_id
       [] coll = "recipe_portions" -> recipeOk(row.recipe_id)
       [] coll = "preset_items" -> \E x \in S.presets : x.id = row.preset_id
       [] OTHER -> userOk(row.user_id)

\* Foreign keys of the schema that the row of a collection must satisfy.
ForeignKeysHold(S, coll, row) ==
  LET userOk(u) == \E x \in S.users : x.id = u
      recipeOk(r) == \E x \in S.recipes : x.id = r
  IN CASE coll = "food_items" -> row.user_id = NULL \/ userOk(row.user_id)
       [] coll = "recipe_ingredients" ->
            recipeOk(row.recipe_id) /\ \E x \in S.food_items : x.id = row.food_item_id
       [] coll = "recipe_portions" -> recipeOk(row.recipe_id)
       [] coll = "preset_items" -> \E x \in S.presets : x.id = row.preset_id
       [] OTHER -> userOk(row.user_id)

\* ------------------------------------------------------------------ bundle
\* Go zero value of every field of an Export* struct (a field that the JSON
\* object lacks keeps it).  The empty UUID text is written 0.
ZeroItem(coll) ==
  CASE coll = "food_items" ->
         [ id |-> 0, user_id |-> "", name |-> "", brand |-> "",
           serving_label |-> "", source |-> "", calories_per_serving |-> 0,
           protein_g_per_serving |-> 0, carbs_g_per_serving |-> 0,
           fat_g_per_serving |-> 0, fiber_g_per_serving |-> 0,
           created_at |-> ZeroTime ]
    [] coll = "recipes" ->
         [ id |-> 0, user_id |-> "", name |-> "", instructions |-> "",
           yield_count |-> 0, created_at |-> ZeroTime ]
    [] coll = "recipe_ingredients" ->
         [ id |-> 0, recipe_id |-> 0, food_item_id |-> 0, amount_g |-> 0,
           created_at |-> ZeroTime ]
    [] coll = "recipe_portions" ->
         [ id |-> 0, recipe_id |-> 0, name |-> "", portion_count |-> 0,
           created_at |-> ZeroTime ]
    [] coll = "presets" ->
         [ id |-> 0, user_id |-> "", name |-> "", pinned |-> FALSE,
           created_at |-> ZeroTime ]
    [] coll = "preset_items" ->
         [ id |-> 0, preset_id |-> 0, kind |-> "", ref_id |-> 0,
           servings |-> 0, created_at |-> ZeroTime ]
    [] coll = "log_entries" ->
         [ id |-> 0, user_id |-> "", occurred_at |-> ZeroTime, kind |-> "",
           ref_id |-> 0, servings |-> 0, meal |-> "", note |-> "",
           created_at |-> ZeroTime ]
    [] coll = "body_weights" ->
         [ id |-> 0, user_id |-> "", measured_at |-> ZeroTime, weight_kg |-> 0,
           source |-> "", note |-> "", created_at |-> ZeroTime ]
    [] coll = "daily_activity" ->
         [ user_id |-> "", date |-> "", steps |-> 0,
           active_calories_kcal_est |-> 0, source |-> "",
           created_at |-> ZeroTime ]

\* json.Decode of one array element into its Export* struct.
DecodeItem(coll, obj) ==
  [ f \in DOMAIN ZeroItem(coll) |->
      IF f \in DOMAIN obj THEN obj[f] ELSE ZeroItem(coll)[f] ]

\* The array a document carries under a key: a key that occurs twice keeps
\* its last value, an absent key leaves the slice nil.
DocArray(doc, coll) ==
  LET idx == { i \in 1..Len(doc.arrays) : doc.arrays[i].key = coll }
  IN  IF idx = {} THEN << >>
      ELSE LET last == CHOOSE i \in idx : \A j \in idx : j <= i
               rows == doc.arrays[last].rows
           IN  [ k \in 1..Len(rows) |-> DecodeItem(coll, rows[k]) ]

\* json.NewDecoder(r.Body).Decode(&req): the ExportBundle of a document.
Decode(doc) ==
  [ user_id            |-> doc.user_id,
    food_items         |-> DocArray(doc, "food_items"),
    recipes            |-> DocArray(doc, "recipes"),
    recipe_ingredients |-> DocArray(doc, "recipe_ingredients"),
    recipe_portions    |-> DocArray(doc, "recipe_portions"),
    presets            |-> DocArray(doc, "presets"),
    preset_items       |-> DocArray(doc, "preset_items"),
    log_entries        |-> DocArray(doc, "log_entries"),
    body_weights       |-> DocArray(doc, "body_weights"),
    daily_activity     |-> DocArray(doc, "daily_activity") ]

\* ------------------------------------------------------------------ import
IsZero(t) == t = ZeroTime

\* Variant: a missing timestamp is written as it is.
OrNowKeepsZero(t, now) == t

OrNow(t, now) == IF IsZero(t) THEN now ELSE t

\* Variant: a query parameter equal to the default id counts as absent.
EffectiveUserIDDefaultAsAbsent(rawQuery, bundleUser) ==
  IF (rawQuery = "" \/ rawQuery = DefaultUserID) /\ bundleUser # ""
    THEN bundleUser
    ELSE IF rawQuery = "" THEN DefaultUserID ELSE rawQuery

\* effectiveUserID: the query parameter when present, else the bundle's
\* user_id when non-empty, else the default (queryUserID of an empty query).
EffectiveUserID(rawQuery, bundleUser) ==
  LET queryUserID == IF rawQuery = "" THEN DefaultUserID ELSE rawQuery
  IN  IF rawQuery = "" /\ bundleUser # "" THEN bundleUser ELSE queryUserID

\* Variant: an owned row keeps the user_id the bundle recorded for it.
InsertRowKeepsBundleUser(coll, it, eff, now) ==
  LET own == IF it.user_id # "" THEN it.user_id ELSE eff
  IN CASE coll = "food_items" ->
         [ it EXCEPT !.user_id = IF it.user_id # "" THEN eff ELSE NULL,
                     !.created_at = OrNow(it.created_at, now) ]
    [] coll = "recipes" ->
         [ it EXCEPT !.user_id = own, !.created_at = OrNow(it.created_at, now) ]
    [] coll = "presets" ->
         [ it EXCEPT !.user_id = own, !.created_at = OrNow(it.created_at, now) ]
    [] coll = "log_entries" ->
         [ it EXCEPT !.user_id = own,
                     !.occurred_at = OrNow(it.occurred_at, now),
                     !.created_at = OrNow(it.created_at, now) ]
    [] coll = "body_weights" ->
         [ it EXCEPT !.user_id = own,
                     !.measured_at = OrNow(it.measured_at, now),
                     !.created_at = OrNow(it.created_at, now) ]
    [] coll = "daily_activity" ->
         [ it EXCEPT !.user_id = own, !.date = ParseDate(it.date),
                     !.created_at = OrNow(it.created_at, now) ]
    [] OTHER -> [ it EXCEPT !.created_at = OrNow(it.created_at, now) ]

\* The parameter list ($1, $2, ...) of the INSERT of one bundle item.
InsertRow(coll, it, eff, now) ==
  CASE coll = "food_items" ->
         [ it EXCEPT !.user_id = IF it.user_id # "" THEN eff ELSE NULL,
                     !.created_at = OrNow(it.created_at, now) ]
    [] coll = "recipes" ->
         [ it EXCEPT !.user_id = eff, !.created_at = OrNow(it.created_at, now) ]
    [] coll = "recipe_ingredients" ->
         [ it EXCEPT !.created_at = OrNow(it.created_at, now) ]
    [] coll = "recipe_portions" ->
         [ it EXCEPT !.created_at = OrNow(it.created_at, now) ]
    [] coll = "presets" ->
         [ it EXCEPT !.user_id = eff, !.created_at = OrNow(it.created_at, now) ]
    [] coll = "preset_items" ->
         [ it EXCEPT !.created_at = OrNow(it.created_at, now) ]
    [] coll = "log_entries" ->
         [ it EXCEPT !.user_id = eff,
                     !.occurred_at = OrNow(it.occurred_at, now),
                     !.created_at = OrNow(it.created_at, now) ]
    [] coll = "body_weights" ->
         [ it EXCEPT !.user_id = eff,
                     !.measured_at = OrNow(it.measured_at, now),
                     !.created_at = OrNow(it.created_at, now) ]
    [] coll = "daily_activity" ->
         [ it EXCEPT !.user_id = eff, !.date = ParseDate(it.date),
                     !.created_at = OrNow(it.created_at, now) ]

\* A UUID parameter must be a well-formed UUID text.
UUIDsValid(coll, row) ==
  CASE coll = "daily_activity" -> TRUE
    [] coll = "recipe_ingredients" ->
         row.id # 0 /\ row.recipe_id # 0 /\ row.food_item_id # 0
    [] coll = "recipe_portions" -> row.id # 0 /\ row.recipe_id # 0
    [] coll = "preset_items" ->
         row.id # 0 /\ row.preset_id # 0 /\ row.ref_id # 0
    [] coll = "log_entries" -> row.id # 0 /\ row.ref_id # 0
    [] OTHER -> row.id # 0

\* The bundle's items in the order the handler's nine loops visit them.
RECURSIVE WorkFrom(_, _)
WorkFrom(req, c) ==
  IF c > Len(CollectionOrder) THEN << >>
  ELSE LET coll == CollectionOrder[c]
           arr  == req[coll]
       IN  [ k \in 1..Len(arr) |-> [ coll |-> coll, it |-> arr[k] ] ]
             \o WorkFrom(req, c + 1)

\* Variant: the rows are written in the order the document lists its arrays.
ImportWorkInDocumentOrder(doc) ==
  LET RECURSIVE From(_)
      From(i) ==
        IF i > Len(doc.arrays) THEN << >>
        ELSE LET a == doc.arrays[i]
             IN  [ k \in 1..Len(a.rows) |->
                     [ coll |-> a.key, it |-> DecodeItem(a.key, a.rows[k]) ] ]
                   \o From(i + 1)
  IN  From(1)

\* Variant: the handler has no loop over food_items.
ImportWorkWithoutFood(doc) == WorkFrom(Decode(doc), 2)

\* The rows the handler writes, in the order it writes them: the loops range
\* over the fields of the decoded bundle, not over the document.
ImportWork(doc) == WorkFrom(Decode(doc), 1)

\* Variant: the rows staged before the failure stay in the store.
RollbackKeepsStaged(committed, tx) == tx

\* defer tx.Rollback(ctx): an import that returns before Commit leaves the
\* committed store as it was when the transaction began.
Rollback(committed, tx) == committed

\* Variant: a daily_activity row whose date does not parse is skipped and
\* the loop goes on with the next row.
RECURSIVE ImportItemsSkipBadDate(_, _, _, _, _, _)
ImportItemsSkipBadDate(st, work, i, eff, now, failAt) ==
  IF st.status # 0 \/ i > Len(work) THEN st
  ELSE
    LET coll == work[i].coll
        it   == work[i].it
    IN
    IF coll = "daily_activity" /\ ~DateParses(it.date)
      THEN ImportItemsSkipBadDate(st, work, i + 1, eff, now, failAt)
    ELSE
      LET row  == InsertRow(coll, it, eff, now)
          call == st.calls + 1
      IN
      IF failAt = call \/ ~UUIDsValid(coll, row) \/ ~ForeignKeysHold(st.tx, coll, row)
        THEN [ st EXCEPT !.status = 500, !.error = coll, !.calls = call ]
        ELSE ImportItemsSkipBadDate(
               [ st EXCEPT !.tx = [ @ EXCEPT ![coll] =
                                      Upsert(@, coll, row, UpdateCols(coll)) ],
                           !.calls = call,
                           !.rows = @ + 1 ],
               work, i + 1, eff, now, failAt)

\* One iteration of the import loops on work item i.  st.status = 0 while the
\* handler is still running; st.calls counts the store calls issued so far
\* (Begin, Exec, Commit), failAt is the call that the store fails (0: none).
RECURSIVE ImportItems(_, _, _, _, _, _)
ImportItems(st, work, i, eff, now, failAt) ==
  IF st.status # 0 \/ i > Len(work) THEN st
  ELSE
    LET coll == work[i].coll
        it   == work[i].it
    IN
    IF coll = "daily_activity" /\ ~DateParses(it.date)
      THEN [ st EXCEPT !.status = 400, !.error = "invalid activity date" ]
    ELSE
      LET row  == InsertRow(coll, it, eff, now)
          call == st.calls + 1
      IN
      IF failAt = call \/ ~UUIDsValid(coll, row) \/ ~ForeignKeysHold(st.tx, coll, row)
        THEN [ st EXCEPT !.status = 500, !.error = coll, !.calls = call ]
        ELSE ImportItems(
               [ st EXCEPT !.tx = [ @ EXCEPT ![coll] =
                                      Upsert(@, coll, row, UpdateCols(coll)) ],
                           !.calls = call,
                           !.rows = @ + 1 ],
               work, i + 1, eff, now, failAt)

\* POST /data/import with query parameter user_id = rawQuery (empty: absent),
\* body doc, at wall-clock time now.  The result carries the committed store
\* after the handler returned and the response.
\* The text of doc cut off before its closing brace.
CutOff(doc) ==
  [ f \in DOMAIN doc \cup { "cut_off" } |->
      IF f = "cut_off" THEN TRUE ELSE doc[f] ]

\* Variant: the decoder accepts a text that is not a complete JSON value.
DecodesAnyText(doc) == TRUE

\* Variant: the decoder rejects a document that lacks one of the nine arrays.
DecodesOnlyAllArrays(doc) ==
  /\ "cut_off" \notin DOMAIN doc
  /\ \A c \in 1..Len(CollectionOrder) :
       \E i \in 1..Len(doc.arrays) : doc.arrays[i].key = CollectionOrder[c]

\* json.NewDecoder(r.Body).Decode(&req) returns no error.
Decodes(doc) == "cut_off" \notin DOMAIN doc

HandleImportData(S, doc, rawQuery, now, failAt) ==
  LET req  == Decode(doc)
      eff  == EffectiveUserID(rawQuery, req.user_id)
      work == ImportWork(doc)
      resp(store, status, error, rows, calls) ==
        [ store |-> store, status |-> status, error |-> error,
          imported_rows |-> rows, calls |-> calls, eff |-> eff ]
  IN
  IF ~Decodes(doc) THEN resp(S, 400, "invalid json", 0, 0)
  ELSE IF failAt = 1 THEN resp(S, 500, "tx begin", 0, 1)
  ELSE IF failAt = 2 THEN resp(Rollback(S, S), 500, "ensure user", 0, 2)
  ELSE
    LET st0 == [ tx |-> EnsureUser(S, eff, now), calls |-> 2, rows |-> 0,
                 status |-> 0, error |-> "" ]
        st  == ImportItems(st0, work, 1, eff, now, failAt)
    IN
    IF st.status # 0
      THEN resp(Rollback(S, st.tx), st.status, st.error, st.rows, st.calls)
    ELSE IF failAt = st.calls + 1
      THEN resp(Rollback(S, st.tx), 500, "tx commit", st.rows, st.calls + 1)
    ELSE resp(st.tx, 200, "", st.rows, st.calls + 1)

\* ------------------------------------------------------------------ export
\* COALESCE(col, '')
\* Variant: the food_items query selects user_id::text without COALESCE.
CoalesceKeepsNull(v) == v

Coalesce(v) == IF v = NULL THEN "" ELSE v

\* The rows of a set as a sequence ORDER BY k1, k2 (ascending).
RECURSIVE OrderBy(_, _, _)
OrderBy(rows, k1, k2) ==
  IF rows = {} THEN << >>
  ELSE LET m == CHOOSE r \in rows :
                  \A o \in rows :
                    \/ r[k1] < o[k1]
                    \/ r[k1] = o[k1] /\ r[k2] <= o[k2]
       IN  << m >> \o OrderBy(rows \ {m}, k1, k2)

\* The select list of the export query of a collection, scanned into its
\* Export* struct.
ExportItem(coll, row) ==
  CASE coll = "food_items" ->
         [ row EXCEPT !.user_id = Coalesce(@), !.brand = Coalesce(@) ]
    [] coll = "recipes" -> [ row EXCEPT !.instructions = Coalesce(@) ]
    [] coll = "log_entries" -> [ row EXCEPT !.note = Coalesce(@) ]
    [] coll = "body_weights" -> [ row EXCEPT !.note = Coalesce(@) ]
    [] coll = "daily_activity" -> [ row EXCEPT !.date = FormatDate(@) ]
    [] OTHER -> row

\* The WHERE clause (and JOIN) of the export query of a collection.
\* Variant: the food_items query is filtered to the target user like the others.
ExportRowsOwnFoodOnly(S, coll, userID) ==
  LET recipeOf(u) == { r.id : r \in { x \in S.recipes : x.user_id = u } }
      presetOf(u) == { r.id : r \in { x \in S.presets : x.user_id = u } }
  IN CASE coll \in { "recipe_ingredients", "recipe_portions" } ->
            { r \in S[coll] : r.recipe_id \in recipeOf(userID) }
       [] coll = "preset_items" ->
            { r \in S.preset_items : r.preset_id \in presetOf(userID) }
       [] OTHER -> { r \in S[coll] : r.user_id = userID }

ExportRows(S, coll, userID) ==
  LET recipeOf(u) == { r.id : r \in { x \in S.recipes : x.user_id = u } }
      presetOf(u) == { r.id : r \in { x \in S.presets : x.user_id = u } }
  IN CASE coll = "food_items" -> S.food_items
       [] coll = "recipe_ingredients" ->
            { r \in S.recipe_ingredients : r.recipe_id \in recipeOf(userID) }
       [] coll = "recipe_portions" ->
            { r \in S.recipe_portions : r.recipe_id \in recipeOf(userID) }
       [] coll = "preset_items" ->
            { r \in S.preset_items : r.preset_id \in presetOf(userID) }
       [] OTHER -> { r \in S[coll] : r.user_id = userID }

ExportArray(S, coll, userID) ==
  LET sorted ==
        CASE coll = "daily_activity" -> OrderBy(ExportRows(S, coll, userID), "date", "date")
          [] coll = "log_entries" -> OrderBy(ExportRows(S, coll, userID), "occurred_at", "id")
          [] coll = "body_weights" -> OrderBy(ExportRows(S, coll, userID), "measured_at", "id")
          [] OTHER -> OrderBy(ExportRows(S, coll, userID), "created_at", "id")
  IN  [ k \in 1..Len(sorted) |-> ExportItem(coll, sorted[k]) ]

\* GET /data/export?user_id=rawQuery at wall-clock time now: the ExportBundle.
HandleExportData(S, rawQuery, now) ==
  LET userID == IF rawQuery = "" THEN DefaultUserID ELSE rawQuery
  IN  [ version            |-> 1,
        exported_at        |-> now,
        user_id            |-> userID,
        food_items         |-> ExportArray(S, "food_items", userID),
        recipes            |-> ExportArray(S, "recipes", userID),
        recipe_ingredients |-> ExportArray(S, "recipe_ingredients", userID),
        recipe_portions    |-> ExportArray(S, "recipe_portions", userID),
        presets            |-> ExportArray(S, "presets", userID),
        preset_items       |-> ExportArray(S, "preset_items", userID),
        log_entries        |-> ExportArray(S, "log_entries", userID),
        body_weights       |-> ExportArray(S, "body_weights", userID),
        daily_activity     |-> ExportArray(S, "daily_activity", userID) ]

\* json encoding of one struct: `omitempty` drops an empty food-item user_id.
EncodeItem(coll, it) ==
  IF coll = "food_items" /\ it.user_id = ""
    THEN [ f \in (DOMAIN it) \ {"user_id"} |-> it[f] ]
    ELSE it

\* writeJSON(w, 200, out): the document of a bundle, arrays in field order.
EncodeJSON(bundle) ==
  [ version     |-> bundle.version,
    exported_at |-> bundle.exported_at,
    user_id     |-> bundle.user_id,
    arrays      |-> [ c \in 1..Len(CollectionOrder) |->
                      [ key  |-> CollectionOrder[c],
                        rows |-> [ k \in 1..Len(bundle[CollectionOrder[c]]) |->
                                   EncodeItem(CollectionOrder[c],
                                              bundle[CollectionOrder[c]][k]) ] ] ] ]

\* ------------------------------------------------------------ other writers
\* POST /presets/{id}/apply?user_id=rawQuery: one log entry per item of the
\* preset, each insert committed on its own.  newId gives the generated id of
\* the entry logged for an item; note stays NULL and meal takes its default.
HandleApplyPreset(S, rawQuery, presetID, newId, now) ==
  LET userID == IF rawQuery = "" THEN DefaultUserID ELSE rawQuery
      items  == { pi \in S.preset_items : pi.preset_id = presetID }
      entry(pi) ==
        [ id |-> newId[pi.id], user_id |-> userID, occurred_at |-> now,
          kind |-> pi.kind, ref_id |-> pi.ref_id, servings |-> pi.servings,
          meal |-> "breakfast", note |-> NULL, created_at |-> now ]
  IN  IF \E u \in S.users : u.id = userID
        THEN [ S EXCEPT !.log_entries = @ \cup { entry(pi) : pi \in items } ]
        ELSE S

\* ------------------------------------------------------------------ inputs
\* The user_id query parameter of a request and the user_id a bundle carries
\* ("": absent).
QueryInputs == { "", DefaultUserID }
ExportQueries == { "" } \cup Users
BundleUsers == { "", OtherUserID }

\* A client row comes in two versions: without timestamps (the handler fills
\* them with its now) or with the timestamps it was exported with.
Versions == { [ name |-> "a", at |-> ZeroTime ], [ name |-> "b", at |-> 2 ] }

DateInputs == { "2024-01-01", "2024-01-02", "not-a-date" }

\* The JSON objects a client may put into the array of a collection.
ItemInputs(coll) ==
  CASE coll = "food_items" ->
         { [ id |-> i, user_id |-> u, name |-> v.name, brand |-> "",
             serving_label |-> "1 serving", source |-> "custom",
             calories_per_serving |-> 100, protein_g_per_serving |-> 10,
             carbs_g_per_serving |-> 10, fat_g_per_serving |-> 10,
             fiber_g_per_serving |-> 1, created_at |-> v.at ] :
           i \in Ids, u \in BundleUsers, v \in Versions }
    [] coll = "recipes" ->
         { [ id |-> i, user_id |-> OtherUserID, name |-> v.name,
             instructions |-> "", yield_count |-> 1, created_at |-> v.at ] :
           i \in Ids, v \in Versions }
    [] coll = "recipe_ingredients" ->
         { [ id |-> i, recipe_id |-> r, food_item_id |-> 1, amount_g |-> 50,
             created_at |-> r - 1 ] :
           i \in Ids, r \in Ids }
    [] coll = "recipe_portions" ->
         { [ id |-> i, recipe_id |-> r, name |-> "slice", portion_count |-> 1,
             created_at |-> r - 1 ] :
           i \in Ids, r \in Ids }
    [] coll = "presets" ->
         { [ id |-> i, user_id |-> OtherUserID, name |-> v.name, pinned |-> FALSE,
             created_at |-> v.at ] :
           i \in Ids, v \in Versions }
    [] coll = "preset_items" ->
         { [ id |-> i, preset_id |-> r, kind |-> "food", ref_id |-> 1,
             servings |-> 1, created_at |-> r - 1 ] :
           i \in Ids, r \in Ids }
    [] coll = "log_entries" ->
         { [ id |-> i, user_id |-> OtherUserID, occurred_at |-> v.at,
             kind |-> "food", ref_id |-> 1, servings |-> 1, meal |-> "lunch",
             note |-> v.name, created_at |-> v.at ] :
           i \in Ids, v \in Versions }
    [] coll = "body_weights" ->
         { [ id |-> i, user_id |-> OtherUserID, measured_at |-> v.at,
             weight_kg |-> 70, source |-> "manual", note |-> v.name,
             created_at |-> v.at ] :
           i \in Ids, v \in Versions }
    [] coll = "daily_activity" ->
         { [ user_id |-> OtherUserID, date |-> d, steps |-> 1000,
             active_calories_kcal_est |-> 0, source |-> v.name,
             created_at |-> v.at ] :
           d \in DateInputs, v \in Versions }

EmptyDoc == [ version |-> 1, exported_at |-> ZeroTime, user_id |-> "", arrays |-> << >> ]

\* The document after the client appended obj to the array under key coll
\* (a new key goes to the end of the document).
AppendItem(doc, coll, obj) ==
  IF \E i \in 1..Len(doc.arrays) : doc.arrays[i].key = coll
    THEN [ doc EXCEPT !.arrays =
             [ i \in 1..Len(@) |->
                 IF @[i].key = coll
                   THEN [ @[i] EXCEPT !.rows = Append(@, obj) ]
                   ELSE @[i] ] ]
    ELSE [ doc EXCEPT !.arrays = Append(@, [ key |-> coll, rows |-> << obj >> ]) ]

DocRows(doc) ==
  LET RECURSIVE Sum(_)
      Sum(i) == IF i = 0 THEN 0 ELSE Len(doc.arrays[i].rows) + Sum(i - 1)
  IN  Sum(Len(doc.arrays))

\* ------------------------------------------------------------------ clients
\* The requests in flight: one goroutine of the server per client.
Clients == 1..MaxClients

\* The rows a transaction has written and not yet committed, per table.
NoWrites == [ t \in DOMAIN SchemaStore |-> {} ]

\* The ExportBundle before any collection was read (nil slices).
NoBundle ==
  [ version |-> 0, exported_at |-> ZeroTime, user_id |-> "",
    food_items |-> << >>, recipes |-> << >>, recipe_ingredients |-> << >>,
    recipe_portions |-> << >>, presets |-> << >>, preset_items |-> << >>,
    log_entries |-> << >>, body_weights |-> << >>, daily_activity |-> << >> ]

\* A client that has sent no request yet.
IdleClient ==
  [ kind |-> "none", pc |-> "idle", doc |-> EmptyDoc, query |-> "", eff |-> "",
    now |-> 0, i |-> 0, writes |-> NoWrites, rows |-> 0, status |-> 0,
    error |-> "", cancelled |-> FALSE, out |-> NoBundle, seen |-> {} ]

\* ----------------------------------------------------------- state machine
VARIABLES
  store,     \* the committed store
  clock,     \* wall clock
  doc,       \* the document the client holds (assembled by hand or exported)
  used,      \* rows the client has written into its document by hand
  op,        \* the operation just performed
  last,      \* request and response of the import just performed, if any
  procs      \* the requests that run concurrently, per client

vars == << store, clock, doc, used, op, last, procs >>

NoImport ==
  [ query |-> "", now |-> 0, failAt |-> 0, status |-> 0, error |-> "",
    imported_rows |-> 0, eff |-> "" ]

Init ==
  /\ store = SchemaStore
  /\ clock = 1
  /\ doc = EmptyDoc
  /\ used = 0
  /\ op = "init"
  /\ last = NoImport
  /\ procs = [ p \in Clients |-> IdleClient ]

\* The client appends one object to an array of its document.
AddItem ==
  /\ used < MaxRows
  /\ doc.exported_at = ZeroTime
  /\ \E coll \in Collections : \E obj \in ItemInputs(coll) :
       doc' = AppendItem(doc, coll, obj)
  /\ used' = used + 1
  /\ op' = "add"
  /\ last' = NoImport
  /\ UNCHANGED << store, clock, procs >>

\* The client starts a document that carries a top-level user_id.
SetUser ==
  /\ doc = EmptyDoc
  /\ \E bu \in BundleUsers : doc' = [ doc EXCEPT !.user_id = bu ]
  /\ doc' # doc
  /\ op' = "user"
  /\ last' = NoImport
  /\ UNCHANGED << store, clock, used, procs >>

\* The client puts its document aside and starts an empty one.
NewDoc ==
  /\ doc # EmptyDoc
  /\ used < MaxRows
  /\ doc' = EmptyDoc
  /\ op' = "new"
  /\ last' = NoImport
  /\ UNCHANGED << store, clock, used, procs >>

\* The client posts its document and the upload breaks off: the handler gets
\* a text that is not a complete JSON value.
ImportCutOff ==
  /\ \E q \in QueryInputs :
       LET r == HandleImportData(store, CutOff(doc), q, clock, 0)
       IN  /\ store' = r.store
           /\ last' = [ NoImport EXCEPT !.status = r.status,
                                        !.error = r.error,
                                        !.imported_rows = r.imported_rows ]
  /\ op' = "import_cut"
  /\ UNCHANGED << clock, doc, used, procs >>

\* The client posts its document; time passes between two requests.
Import ==
  /\ clock <= MaxClock
  /\ \E q \in QueryInputs, failAt \in 0..(DocRows(doc) + 3) :
    LET r == HandleImportData(store, doc, q, clock, failAt)
    IN  /\ store' = r.store
        /\ last' = [ query |-> q, now |-> clock, failAt |-> failAt,
                     status |-> r.status, error |-> r.error,
                     imported_rows |-> r.imported_rows, eff |-> r.eff ]
        /\ op' = "import"
        /\ clock' = clock + 1
        /\ UNCHANGED << doc, used, procs >>

\* The client fetches the export of a user and keeps it as its document.
Export ==
  /\ \E q \in ExportQueries :
       doc' = EncodeJSON(HandleExportData(store, q, clock))
  /\ op' = "export"
  /\ last' = NoImport
  /\ UNCHANGED << store, clock, used, procs >>

\* A user applies one of their presets.
ApplyPreset ==
  /\ \E q \in QueryInputs, p \in Ids :
       LET items == { pi.id : pi \in { x \in store.preset_items : x.preset_id = p } }
           free  == Ids \ { e.id : e \in store.log_entries }
       IN  /\ items # {}
           /\ \E newId \in [ items -> free ] :
                /\ \A i, j \in items : newId[i] = newId[j] => i = j
                /\ store' = HandleApplyPreset(store, q, p, newId, clock)
  /\ op' = "apply"
  /\ last' = NoImport
  /\ UNCHANGED << clock, doc, used, procs >>

Next ==
  AddItem \/ SetUser \/ NewDoc \/ Import \/ ImportCutOff \/ Export \/ ApplyPreset

Spec == Init /\ [][Next]_vars

\* ------------------------------------------------------ concurrent requests
\* Every request runs in a goroutine of its own.  The import holds one
\* transaction of the pool (READ COMMITTED): each statement reads the committed
\* store with the rows its own transaction wrote, and a row a transaction
\* wrote stays locked until that transaction ends.  The export and the other
\* handlers send each statement to the pool on its own.

\* The documents the concurrent clients post.
FoodOf(v, u) ==
  CHOOSE o \in ItemInputs("food_items") :
    o.id = 1 /\ o.name = v /\ o.user_id = u

RecipeOf(v) == CHOOSE o \in ItemInputs("recipes") : o.id = 1 /\ o.name = v

PortionOf(r) ==
  CHOOSE o \in ItemInputs("recipe_portions") : o.id = 1 /\ o.recipe_id = r

ActivityOf(d, v) ==
  CHOOSE o \in ItemInputs("daily_activity") : o.date = d /\ o.source = v

RecipeDoc ==
  AppendItem(AppendItem(AppendItem(EmptyDoc,
    "food_items", FoodOf("a", "")), "recipes", RecipeOf("a")),
    "recipe_portions", PortionOf(1))

OtherRecipeDoc ==
  AppendItem(AppendItem([ EmptyDoc EXCEPT !.user_id = OtherUserID ],
    "food_items", FoodOf("b", OtherUserID)), "recipes", RecipeOf("b"))

ActivityDoc ==
  AppendItem(AppendItem(EmptyDoc,
    "daily_activity", ActivityOf("2024-01-01", "a")),
    "daily_activity", ActivityOf("2024-01-02", "a"))

ReverseActivityDoc ==
  AppendItem(AppendItem(EmptyDoc,
    "daily_activity", ActivityOf("2024-01-02", "b")),
    "daily_activity", ActivityOf("2024-01-01", "b"))

SameDayDoc ==
  AppendItem(AppendItem(EmptyDoc,
    "daily_activity", ActivityOf("2024-01-01", "a")),
    "daily_activity", ActivityOf("2024-01-01", "b"))

ClientDocs ==
  { RecipeDoc, OtherRecipeDoc, ActivityDoc, ReverseActivityDoc, SameDayDoc }

\* The bodies of POST /activity/daily that clients send.
ActivityInputs ==
  { [ user_id |-> "", date |-> "2024-01-01", steps |-> 2000,
      active_calories_est |-> 80 ] }

\* POST /activity/daily: one upsert on (user_id, date), committed on its own;
\* source and created_at of an existing row stay.
HandleDailyActivity(S, req, dbnow) ==
  LET userID == IF req.user_id = "" THEN DefaultUserID ELSE req.user_id
  IN  IF ~DateParses(req.date) \/ ~\E u \in S.users : u.id = userID
        THEN [ store |-> S, status |-> 500 ]
        ELSE LET row == [ user_id |-> userID, date |-> ParseDate(req.date),
                          steps |-> req.steps,
                          active_calories_kcal_est |-> req.active_calories_est,
                          source |-> "manual", created_at |-> dbnow ]
             IN  [ store |-> [ S EXCEPT !.daily_activity =
                                 Upsert(@, "daily_activity", row,
                                        { "steps", "active_calories_kcal_est" }) ],
                   status |-> 201 ]

\* What a statement of the transaction with uncommitted rows w reads in S.
Overlay(S, w) ==
  [ t \in DOMAIN S |->
      { e \in S[t] : ~\E x \in w[t] : SameKey(t, e, x) } \cup w[t] ]

View(p) == Overlay(store, procs[p].writes)

\* Client p has a transaction open.
InTx(p) ==
  procs[p].kind = "import" /\ procs[p].pc \in { "ensure", "rows", "commit" }

\* Variant: a row written by an open transaction is not locked.
HoldersWithoutLocks(p, t, row) == {}

\* The other clients whose open transaction wrote the row of table t with the
\* key of row: a statement that writes this key waits until they end.
Holders(p, t, row) ==
  { q \in Clients \ {p} :
      InTx(q) /\ \E x \in procs[q].writes[t] : SameKey(t, x, row) }

\* The clients the statement that p issues next has to wait for.
WaitsFor(p) ==
  LET c == procs[p]
  IN  IF ~InTx(p) \/ c.cancelled THEN {}
      ELSE IF c.pc = "ensure" THEN Holders(p, "users", [ id |-> c.eff ])
      ELSE IF c.pc = "commit" THEN {}
      ELSE LET w == ImportWork(c.doc)[c.i]
           IN  IF w.coll = "daily_activity" /\ ~DateParses(w.it.date) THEN {}
               ELSE LET row == InsertRow(w.coll, w.it, c.eff, c.now)
                    IN  IF UUIDsValid(w.coll, row)
                          THEN Holders(p, w.coll, row) ELSE {}

RECURSIVE WaitsForClosure(_, _)
WaitsForClosure(S, n) ==
  IF n = 0 THEN S
  ELSE WaitsForClosure(S \cup UNION { WaitsFor(q) : q \in S }, n - 1)

\* p waits, directly or through others, for a client that waits for p.
Deadlocked(p) == p \in WaitsForClosure(WaitsFor(p), MaxClients)

\* The running exports have one more committed store to read from.
Observed(ps, S) ==
  [ q \in Clients |->
      IF ps[q].kind = "export" /\ ps[q].pc = "read"
        THEN [ ps[q] EXCEPT !.seen = @ \cup {S} ]
        ELSE ps[q] ]

\* The import of p returns with an error: the deferred Rollback drops what its
\* transaction wrote.
Fails(p, status, error) ==
  /\ store' = Rollback(store, View(p))
  /\ procs' = Observed([ procs EXCEPT ![p] =
                 [ @ EXCEPT !.pc = "done", !.status = status, !.error = error,
                            !.writes = NoWrites ] ], store')
  /\ UNCHANGED << clock, doc, used, op, last >>

\* POST /data/import arrives: decode, tx begin, now, effective user.
StartImport(p) ==
  /\ procs[p].pc = "idle"
  /\ \E d \in ClientDocs :
       procs' = [ procs EXCEPT ![p] =
                    [ IdleClient EXCEPT !.kind = "import", !.pc = "ensure",
                                        !.doc = d,
                                        !.eff = EffectiveUserID("", Decode(d).user_id),
                                        !.now = clock ] ]
  /\ clock' = clock + 1
  /\ UNCHANGED << store, doc, used, op, last >>

\* The request context of p ends (client gone, or the 10 s timeout).
Cancel(p) ==
  /\ InTx(p)
  /\ ~procs[p].cancelled
  /\ procs' = [ procs EXCEPT ![p].cancelled = TRUE ]
  /\ UNCHANGED << store, clock, doc, used, op, last >>

\* The ensure-user statement of the import of p.
EnsureStep(p) ==
  LET c == procs[p]
  IN  /\ c.kind = "import" /\ c.pc = "ensure"
      /\ IF c.cancelled THEN Fails(p, 500, "ensure user")
         ELSE /\ WaitsFor(p) = {}
              /\ LET V == View(p)
                     U == EnsureUser(V, c.eff, c.now)
                 IN  procs' = [ procs EXCEPT ![p] =
                         [ @ EXCEPT !.writes.users = @ \cup (U.users \ V.users),
                                    !.i = 1,
                                    !.pc = IF Len(ImportWork(c.doc)) = 0
                                             THEN "commit" ELSE "rows" ] ]
              /\ UNCHANGED << store, clock, doc, used, op, last >>

\* One iteration of the loops of the import of p.
RowStep(p) ==
  LET c == procs[p]
  IN  /\ c.kind = "import" /\ c.pc = "rows"
      /\ LET work == ImportWork(c.doc)
             coll == work[c.i].coll
             it   == work[c.i].it
         IN  IF coll = "daily_activity" /\ ~DateParses(it.date)
               THEN Fails(p, 400, "invalid activity date")
             ELSE IF c.cancelled \/ ~UUIDsValid(coll, InsertRow(coll, it, c.eff, c.now))
               THEN Fails(p, 500, coll)
             ELSE
               LET row == InsertRow(coll, it, c.eff, c.now)
                   V   == View(p)
               IN  /\ WaitsFor(p) = {}
                   /\ IF ~ForeignKeysHold(V, coll, row) THEN Fails(p, 500, coll)
                      ELSE LET tbl == Upsert(V[coll], coll, row, UpdateCols(coll))
                               written == CHOOSE e \in tbl : SameKey(coll, e, row)
                           IN  /\ procs' = [ procs EXCEPT ![p] =
                                    [ @ EXCEPT
                                        !.writes[coll] =
                                          { x \in @ : ~SameKey(coll, x, row) }
                                            \cup {written},
                                        !.rows = @ + 1,
                                        !.i = @ + 1,
                                        !.pc = IF c.i = Len(work)
                                                 THEN "commit" ELSE "rows" ] ]
                               /\ UNCHANGED << store, clock, doc, used, op, last >>

\* The database ends a lock wait cycle: the statement of one of the waiting
\* transactions fails.
DeadlockAbort(p) ==
  /\ Deadlocked(p)
  /\ Fails(p, 500, IF procs[p].pc = "ensure" THEN "ensure user"
                   ELSE ImportWork(procs[p].doc)[procs[p].i].coll)

\* tx.Commit of the import of p; the client record keeps the rows that the
\* transaction committed.
CommitStep(p) ==
  LET c == procs[p]
  IN  /\ c.kind = "import" /\ c.pc = "commit"
      /\ IF c.cancelled THEN Fails(p, 500, "tx commit")
         ELSE /\ store' = View(p)
              /\ procs' = Observed([ procs EXCEPT ![p] =
                            [ @ EXCEPT !.pc = "done", !.status = 200 ] ], store')
              /\ UNCHANGED << clock, doc, used, op, last >>

\* The request context of p ends while tx.Commit waits for the answer to the
\* COMMIT it has sent: the call returns an error and the handler answers 500,
\* the deferred Rollback finds the connection closed, and the database, which
\* had received the COMMIT, completes it.  (When the database had not yet
\* received it the transaction is dropped: Cancel followed by CommitStep.)
CommitInterrupted(p) ==
  LET c == procs[p]
  IN  /\ c.kind = "import" /\ c.pc = "commit" /\ ~c.cancelled
      /\ store' = View(p)
      /\ procs' = Observed([ procs EXCEPT ![p] =
                    [ @ EXCEPT !.pc = "done", !.status = 500,
                               !.error = "tx commit",
                               !.cancelled = TRUE ] ], store')
      /\ UNCHANGED << clock, doc, used, op, last >>

\* GET /data/export arrives.
StartExport(p) ==
  /\ procs[p].pc = "idle"
  /\ \E q \in ExportQueries :
       procs' = [ procs EXCEPT ![p] =
                    [ IdleClient EXCEPT
                        !.kind = "export", !.pc = "read", !.query = q, !.i = 1,
                        !.out = [ NoBundle EXCEPT
                                    !.version = 1, !.exported_at = clock,
                                    !.user_id = IF q = "" THEN DefaultUserID ELSE q ],
                        !.seen = {store} ] ]
  /\ UNCHANGED << store, clock, doc, used, op, last >>

\* The export of p runs the query of its next collection and scans the rows.
ReadStep(p) ==
  LET c == procs[p]
      coll == CollectionOrder[c.i]
  IN  /\ c.kind = "export" /\ c.pc = "read"
      /\ procs' = [ procs EXCEPT ![p] =
                      [ @ EXCEPT !.out[coll] = ExportArray(store, coll, c.out.user_id),
                                 !.i = @ + 1,
                                 !.pc = IF c.i = Len(CollectionOrder)
                                          THEN "done" ELSE "read",
                                 !.status = IF c.i = Len(CollectionOrder)
                                              THEN 200 ELSE 0 ] ]
      /\ UNCHANGED << store, clock, doc, used, op, last >>

\* POST /activity/daily is handled for p (once no open transaction holds the
\* row it writes).
Activity(p) ==
  /\ procs[p].pc = "idle"
  /\ \E req \in ActivityInputs :
       LET r == HandleDailyActivity(store, req, clock)
           userID == IF req.user_id = "" THEN DefaultUserID ELSE req.user_id
       IN  /\ DateParses(req.date) =>
                Holders(p, "daily_activity",
                        [ user_id |-> userID, date |-> ParseDate(req.date) ]) = {}
           /\ store' = r.store
           /\ procs' = Observed([ procs EXCEPT ![p] =
                         [ IdleClient EXCEPT !.kind = "activity", !.pc = "done",
                                             !.status = r.status ] ], store')
  /\ UNCHANGED << clock, doc, used, op, last >>

ClientsNext ==
  \E p \in Clients :
    \/ StartImport(p)
    \/ Cancel(p)
    \/ EnsureStep(p)
    \/ RowStep(p)
    \/ DeadlockAbort(p)
    \/ CommitStep(p)
    \/ CommitInterrupted(p)
    \/ StartExport(p)
    \/ ReadStep(p)
    \/ Activity(p)

SpecClients == Init /\ [][ClientsNext]_vars

\* Every goroutine keeps running and the database detects lock wait cycles.
SpecClientsFair == SpecClients /\ WF_vars(ClientsNext)

\* ================================================================== claims
\* Vocabulary of the claims.
OwnedCollections ==
  { "food_items", "recipes", "presets", "log_entries", "body_weights",
    "daily_activity" }

Imported == op = "import"
Succeeded == op = "import" /\ last.status = 200

\* The bundle of the document the client holds.
Bundle == Decode(doc)

\* The key under which an import with effective user eff stores an item.
KeyOf(coll, it, eff) ==
  IF coll = "daily_activity"
    THEN [ user_id |-> eff, date |-> ParseDate(it.date) ]
    ELSE [ id |-> it.id ]

\* The key under which an item of the last import is stored.
ItemKey(coll, it) == KeyOf(coll, it, last.eff)

\* The rows a store holds under the key of an item.
Stored(S, coll, it) == { e \in S[coll] : SameKey(coll, e, ItemKey(coll, it)) }

\* Item k of an array is the last one of the array with its key.
LastOfKey(coll, arr, k) ==
  \A j \in (k + 1)..Len(arr) : ItemKey(coll, arr[j]) # ItemKey(coll, arr[k])

RefIntegrity(S) ==
  LET uids == { u.id : u \in S.users }
      rids == { r.id : r \in S.recipes }
      fids == { f.id : f \in S.food_items }
      pids == { p.id : p \in S.presets }
  IN  /\ \A r \in S.food_items : r.user_id = NULL \/ r.user_id \in uids
      /\ \A r \in S.recipes \cup S.presets \cup S.log_entries
                 \cup S.body_weights \cup S.daily_activity : r.user_id \in uids
      /\ \A r \in S.recipe_ingredients : r.recipe_id \in rids /\ r.food_item_id \in fids
      /\ \A r \in S.recipe_portions : r.recipe_id \in rids
      /\ \A r \in S.preset_items : r.preset_id \in pids

Reverse(seq) == [ k \in 1..Len(seq) |-> seq[Len(seq) + 1 - k] ]

SwapAt(seq, i) ==
  [ k \in 1..Len(seq) |->
      IF k = i THEN seq[i + 1] ELSE IF k = i + 1 THEN seq[i] ELSE seq[k] ]

\* The reversal and the adjacent transpositions of the arrays of a document.
Reorderings(arrays) ==
  { Reverse(arrays) } \cup { SwapAt(arrays, i) : i \in 1..(Len(arrays) - 1) }

C2_ReplayChangesNothing ==
  [][ (Succeeded /\ op' = "import" /\ last'.query = last.query)
        => store' = store ]_vars

\* The client has just exported a user who has a row in the store: doc is
\* the export of the store for doc.user_id.
ExportedExistingUser ==
  op = "export" /\ \E u \in store.users : u.id = doc.user_id

\* C3: the export of a user, imported into a freshly initialised store and
\* exported again for that user, gives the same nine arrays and user_id.
C3_RoundTrip ==
  ExportedExistingUser =>
    \A q \in { "", doc.user_id } :
      LET r     == HandleImportData(SchemaStore, doc, q, clock, 0)
          again == EncodeJSON(HandleExportData(r.store, doc.user_id, clock))
      IN  /\ r.status = 200
          /\ again.user_id = doc.user_id
          /\ again.arrays = doc.arrays

\* C4: importing the unmodified export of user U back into the store it was
\* taken from, for U, changes no row of the store and adds none.
C4_ReimportIsNoOp ==
  [][ (ExportedExistingUser /\ op' = "import" /\ last'.eff = doc.user_id)
        => store' = store ]_vars

\* C5: the response and the resulting store of an import are the same
\* whatever the order of the arrays in the document (checked for the
\* reversal and every adjacent transposition of the posted document).
C5_ArrayOrderIrrelevant ==
  [][ op' = "import" =>
        \A a \in Reorderings(doc.arrays) :
          LET r == HandleImportData(store, [ doc EXCEPT !.arrays = a ],
                                    last'.query, last'.now, last'.failAt)
          IN  /\ r.store = store'
              /\ r.status = last'.status
              /\ r.error = last'.error
              /\ r.imported_rows = last'.imported_rows ]_vars

\* A first import that succeeded on a document listing portions before the
\* recipes they belong to.
C5_Witness ==
  /\ Succeeded /\ last.now = 1
  /\ Len(doc.arrays) = 2
  /\ doc.arrays[1].key = "recipe_portions"
  /\ doc.arrays[2].key = "recipes"

\* C6 (as claimed): after a successful import every row of the bundle's owned
\* collections, food items included, is stored with the effective user as
\* owner.
C6_EveryOwnedRowGetsEffectiveUser ==
  Succeeded =>
    \A coll \in OwnedCollections : \A k \in 1..Len(Bundle[coll]) :
      /\ Stored(store, coll, Bundle[coll][k]) # {}
      /\ \A e \in Stored(store, coll, Bundle[coll][k]) : e.user_id = last.eff

\* C6 (amended): after a successful import every row of the bundle's owned
\* collections is stored with the effective user as owner, except that a food
\* item whose bundle row (the last one with its id) has no user_id is stored
\* without owner; no row the import wrote is owned by any other user.
C6_OwnedRowsGetEffectiveUserOrNone ==
  Succeeded =>
    \A coll \in OwnedCollections : \A k \in 1..Len(Bundle[coll]) :
      /\ Stored(store, coll, Bundle[coll][k]) # {}
      /\ \A e \in Stored(store, coll, Bundle[coll][k]) :
           /\ e.user_id \in { last.eff, NULL }
           /\ e.user_id = NULL => coll = "food_items"
           /\ LastOfKey(coll, Bundle[coll], k) =>
                e.user_id = IF coll = "food_items" /\ Bundle[coll][k].user_id = ""
                              THEN NULL ELSE last.eff

\* A successful import of a row whose bundle user_id is another user's.
C6_Witness ==
  /\ Succeeded
  /\ \E coll \in OwnedCollections : \E k \in 1..Len(Bundle[coll]) :
       Bundle[coll][k].user_id \notin { "", last.eff }

\* C7: the effective user is the query parameter when one is given (also
\* when it is the default id), else the bundle's non-empty user_id, else the
\* default id; a successful import has a user row for it and stores every
\* recipe, preset, log entry, body weight and activity row under it.
C7_EffectiveUserPrecedence ==
  Imported =>
    /\ last.query # "" => last.eff = last.query
    /\ last.query = "" /\ doc.user_id # "" => last.eff = doc.user_id
    /\ last.query = "" /\ doc.user_id = "" => last.eff = DefaultUserID
    /\ last.status = 200 =>
         /\ \E u \in store.users : u.id = last.eff
         /\ \A coll \in OwnedCollections \ { "food_items" } :
              \A k \in 1..Len(Bundle[coll]) :
                \E e \in Stored(store, coll, Bundle[coll][k]) : e.user_id = last.eff

\* An import that names the default user explicitly while the bundle carries
\* another user's id, and wrote rows.
C7_Witness ==
  /\ Succeeded /\ last.imported_rows > 0
  /\ last.query = DefaultUserID /\ doc.user_id = OtherUserID

SharedIds ==
  { Bundle.food_items[k].id : k \in 1..Len(Bundle.food_items) }
    \cap { Bundle.recipes[k].id : k \in 1..Len(Bundle.recipes) }

\* C8: a document holding only food items and recipes imports (no store
\* fault injected) also when a food item and a recipe share an id; both rows
\* are stored, and the export of the effective user carries both with that id.
C8_SharedIdentity ==
  ( /\ Imported /\ last.failAt = 0
    /\ \A coll \in Collections \ { "food_items", "recipes" } : Bundle[coll] = << >> )
  => /\ last.status = 200
     /\ \A i \in SharedIds :
          LET out == HandleExportData(store, last.eff, clock)
          IN  /\ \E f \in store.food_items : f.id = i
              /\ \E r \in store.recipes : r.id = i
              /\ \E k \in 1..Len(out.food_items) : out.food_items[k].id = i
              /\ \E k \in 1..Len(out.recipes) : out.recipes[k].id = i

\* A successful import of a bundle with a food item and a recipe of one id.
C8_Witness == Succeeded /\ SharedIds # {}

\* C9: in every committed store every user id, recipe id, food item id and
\* preset id that a row references names an existing row.
C9_ReferentialIntegrity == RefIntegrity(store)

\* A failed import on a store that holds child rows.
C9_Witness ==
  /\ Imported /\ last.status # 200
  /\ store.recipe_portions # {}

\* C10 (as claimed): when the store holds a row under the key of a bundle
\* row (the only bundle row with that key, carrying a created_at), then after
\* a successful import the stored row has every field, created_at included,
\* equal to the incoming value.
C10_UpsertReplacesWholeRow ==
  [][ (op' = "import" /\ last'.status = 200) =>
        \A coll \in Collections : \A k \in 1..Len(Bundle[coll]) :
          LET arr    == Bundle[coll]
              key(i) == KeyOf(coll, arr[i], last'.eff)
              before == { e \in store[coll] : SameKey(coll, e, key(k)) }
          IN  ( /\ before # {}
                /\ ~IsZero(arr[k].created_at)
                /\ \A j \in 1..Len(arr) : key(j) = key(k) => j = k )
              => InsertRow(coll, arr[k], last'.eff, last'.now) \in store'[coll] ]_vars

\* C10 (amended): after a successful import exactly one row is stored under
\* the key of a bundle row; every field of it other than created_at equals the
\* incoming value of the last bundle row with that key; its created_at is the
\* one the store held under that key before the import or, when the key was
\* new, the one of the first bundle row with that key.
C10_UpsertKeepsCreatedAt ==
  [][ (op' = "import" /\ last'.status = 200) =>
        \A coll \in Collections : \A k \in 1..Len(Bundle[coll]) :
          LET arr    == Bundle[coll]
              key(i) == KeyOf(coll, arr[i], last'.eff)
              row(i) == InsertRow(coll, arr[i], last'.eff, last'.now)
              first  == CHOOSE i \in 1..k :
                          key(i) = key(k) /\ \A j \in 1..(i - 1) : key(j) # key(k)
              before == { e \in store[coll] : SameKey(coll, e, key(k)) }
              after  == { e \in store'[coll] : SameKey(coll, e, key(k)) }
          IN  (\A j \in (k + 1)..Len(arr) : key(j) # key(k)) =>
                /\ Cardinality(after) = 1
                /\ \A e \in after :
                     /\ \A f \in DOMAIN e \ {"created_at"} : e[f] = row(k)[f]
                     /\ e.created_at =
                          IF before # {}
                            THEN (CHOOSE b \in before : TRUE).created_at
                            ELSE row(first).created_at ]_vars

\* A successful import overwrote the name of a stored food item with the one
\* bundle row of its id, which carries another created_at than the stored row.
C10_Witness ==
  /\ Succeeded
  /\ Len(Bundle.food_items) = 1
  /\ \E k \in 1..Len(Bundle.food_items) : \E e \in store.food_items :
       /\ e.id = Bundle.food_items[k].id
       /\ e.name = Bundle.food_items[k].name
       /\ ~IsZero(Bundle.food_items[k].created_at)
       /\ e.created_at # Bundle.food_items[k].created_at

\* ------------------------------------------------------ export read faults
ReadFaults == { "query", "scan", "rows" }

\* The read of the next collection of the export of p fails: a.DB.Query
\* returns an error ("query") or rows.Scan does on the row after the first k
\* ("scan"), and the handler answers 500; or rows.Next ends the loop early
\* after k rows because the result stream broke ("rows"), which the handler,
\* not consulting rows.Err, takes for the end of the result: it keeps the k
\* rows and goes on to the next collection, or to the 200 response.
ReadFault(p) ==
  LET c    == procs[p]
      coll == CollectionOrder[c.i]
      full == ExportArray(store, coll, c.out.user_id)
  IN  /\ c.kind = "export" /\ c.pc = "read"
      /\ \E f \in ReadFaults :
           \/ /\ f = "query"
              /\ procs' = [ procs EXCEPT ![p] =
                    [ @ EXCEPT !.pc = "done", !.status = 500, !.error = coll ] ]
           \/ /\ f = "scan"
              /\ \E k \in 0..(Len(full) - 1) :
                   procs' = [ procs EXCEPT ![p] =
                     [ @ EXCEPT !.out[coll] = SubSeq(full, 1, k),
                                !.pc = "done", !.status = 500,
                                !.error = "scan" ] ]
           \/ /\ f = "rows"
              /\ \E k \in 0..(Len(full) - 1) :
                   procs' = [ procs EXCEPT ![p] =
                     [ @ EXCEPT !.out[coll] = SubSeq(full, 1, k),
                                !.i = @ + 1,
                                !.pc = IF c.i = Len(CollectionOrder)
                                         THEN "done" ELSE "read",
                                !.status = IF c.i = Len(CollectionOrder)
                                             THEN 200 ELSE 0 ] ]
      /\ UNCHANGED << store, clock, doc, used, op, last >>

ReadFaultsNext == ClientsNext \/ \E p \in Clients : ReadFault(p)

SpecReadFaults == Init /\ [][ReadFaultsNext]_vars

\* --------------------------------------------------- claims on concurrency
ImportOf(p) == procs[p].kind = "import"

Committed(p) == ImportOf(p) /\ procs[p].pc = "done" /\ procs[p].status = 200

Exported(e) ==
  procs[e].kind = "export" /\ procs[e].pc = "done" /\ procs[e].status = 200

\* The bundle that export e returned lists a row that import p wrote to t.
SeesWrite(e, p, t) ==
  \E x \in procs[p].writes[t] : \E k \in 1..Len(procs[e].out[t]) :
    procs[e].out[t][k] = ExportItem(t, x)

\* C11: a reader never observes part of an import.  The bundle returned by an
\* export of the user that an import (the only writer at work) wrote for
\* lists the rows the import wrote to one collection exactly if it lists the
\* rows the import wrote to any other collection.
C11_NoPartialImportObserved ==
  \A e, p \in Clients :
    ( /\ Exported(e) /\ ImportOf(p)
      /\ procs[p].eff = procs[e].out.user_id
      /\ \A r \in Clients \ {e, p} : procs[r].kind \notin { "import", "activity" } )
    => \A t1, t2 \in Collections :
         (procs[p].writes[t1] # {} /\ procs[p].writes[t2] # {})
           => (SeesWrite(e, p, t1) <=> SeesWrite(e, p, t2))

\* C12: the export is one atomic unit of work.  The nine arrays of a returned
\* bundle are the rows of one committed store: one of those that existed
\* between the start of the export and its response, each of which lies
\* entirely before or entirely after the commit of every concurrent writer.
C12_ExportReadsOneSnapshot ==
  \A e \in Clients :
    Exported(e) =>
      \E S \in procs[e].seen :
        \A coll \in Collections :
          procs[e].out[coll] = ExportArray(S, coll, procs[e].out.user_id)

\* The store after the import of p and then the import of q, one after the
\* other, each with the time it read at its start.
SerialResult(p, q) ==
  HandleImportData(
    HandleImportData(SchemaStore, procs[p].doc, procs[p].query,
                     procs[p].now, 0).store,
    procs[q].doc, procs[q].query, procs[q].now, 0).store

\* The transaction of the import of r was committed by the database.
Applied(r) ==
  ImportOf(r) /\ procs[r].pc = "done" /\ procs[r].writes # NoWrites

\* Client r has changed the committed store.
Wrote(r) == Applied(r) \/ procs[r].kind = "activity"

SerialOutcome ==
  \A p, q \in Clients :
    ( /\ p # q /\ Committed(p) /\ Committed(q)
      /\ \A r \in Clients \ {p, q} : ~Wrote(r) )
    => store \in { SerialResult(p, q), SerialResult(q, p) }

\* C13: concurrent imports are serialized.  When two imports have both
\* reported success (and no other request has written), the committed store
\* is the store that results from running the two one after the other in one
\* of the two orders; and an import with an open transaction always comes to
\* its response.
C13_ConcurrentImportsSerialized ==
  /\ []SerialOutcome
  /\ \A p \in Clients : InTx(p) ~> (procs[p].pc = "done")

\* Two imports overlapped and both succeeded: q started after p, p committed
\* after q and overwrote a row that q had written with other values.
C13_Witness ==
  \E p, q \in Clients :
    /\ p # q /\ Committed(p) /\ Committed(q)
    /\ procs[p].now < procs[q].now
    /\ \E t \in Collections :
         \E x \in procs[p].writes[t], y \in procs[q].writes[t] :
           SameKey(t, x, y) /\ x # y /\ x \in store[t]

\* C14: cancellation rolls back.  When an import whose request context ended
\* before its commit had succeeded has returned, and no other request has
\* written, the committed store is the store from before the import: it holds
\* none of the rows the import wrote, the placeholder user included.
C14_CancelledImportLeavesNothing ==
  \A p \in Clients :
    ( /\ ImportOf(p) /\ procs[p].pc = "done" /\ procs[p].cancelled
      /\ \A r \in Clients \ {p} : ~Wrote(r) )
    => store = SchemaStore

\* The user row that the ensure-user statement inserts for uid at dbnow.
PlaceholderUser(uid, dbnow) ==
  [ id |-> uid, email |-> NULL, display_name |-> "Imported User",
    created_at |-> dbnow ]

\* C15: placeholder user.  The ensure-user statement is the first write of an
\* import (a failure of the first statement after tx begin is reported as
\* "ensure user" with no row imported); a successful import adds to the users
\* table exactly the placeholder row of the effective user when no user with
\* that id existed and nothing when one existed, keeps every existing user
\* row as it was, and leaves a user row with the effective id in the store.
C15_PlaceholderUser ==
  [][ op' = "import" =>
        LET E   == last'.eff
            had == \E u \in store.users : u.id = E
        IN  /\ last'.failAt = 2 =>
                 last'.error = "ensure user" /\ last'.imported_rows = 0
            /\ last'.status = 200 =>
                 /\ store.users \subseteq store'.users
                 /\ store'.users \ store.users =
                      IF had THEN {} ELSE { PlaceholderUser(E, last'.now) }
                 /\ \E u \in store'.users : u.id = E ]_vars

\* A successful import has inserted the placeholder row of its effective user
\* beside an older user row.
C15_Witness ==
  /\ Succeeded
  /\ PlaceholderUser(last.eff, last.now) \in store.users
  /\ \E u \in store.users : u.id # last.eff

\* No two rows of daily_activity in S have the same (user_id, date).
OnePerDay(S) ==
  \A x, y \in S.daily_activity : SameKey("daily_activity", x, y) => x = y

DayKeys(S) ==
  { [ user_id |-> e.user_id, date |-> e.date ] : e \in S.daily_activity }

\* The rows that the daily_activity loop of the import of p sends, in order.
ActivityRows(p) ==
  LET work == ImportWork(procs[p].doc)
      acts == SelectSeq(work, LAMBDA w : w.coll = "daily_activity")
  IN  [ k \in 1..Len(acts) |->
          InsertRow("daily_activity", acts[k].it, procs[p].eff, procs[p].now) ]

\* C16: daily_activity holds at most one row per (user, date) after every
\* step of imports and HandleDailyActivity calls; and the commit of an import
\* leaves, for every (effective user, date) of its bundle, the one row of
\* that key with steps, active calories and source of the last bundle row
\* for the key, and adds a key only for the dates that had no row.
C16_OneActivityRowPerDay ==
  [][ /\ OnePerDay(store')
      /\ \A p \in Clients :
           (~Committed(p) /\ Committed(p)') =>
             LET rows == ActivityRows(p)
             IN  /\ DayKeys(store') =
                      DayKeys(store) \cup
                        { [ user_id |-> rows[k].user_id, date |-> rows[k].date ] :
                            k \in 1..Len(rows) }
                 /\ \A k \in 1..Len(rows) :
                      (\A j \in (k + 1)..Len(rows) :
                         ~SameKey("daily_activity", rows[j], rows[k]))
                      => \E e \in store'.daily_activity :
                           /\ SameKey("daily_activity", e, rows[k])
                           /\ e.steps = rows[k].steps
                           /\ e.active_calories_kcal_est =
                                rows[k].active_calories_kcal_est
                           /\ e.source = rows[k].source ]_vars

\* An import has committed over the row that a HandleDailyActivity call had
\* stored for the same user and date: the row has the bundle's steps and
\* source and is still the only one of its day.
C16_Witness ==
  \E p, q \in Clients :
    /\ Committed(p) /\ procs[q].kind = "activity" /\ procs[q].status = 201
    /\ \E e \in store.daily_activity :
         /\ e.user_id = DefaultUserID /\ e.date = ParseDate("2024-01-01")
         /\ e.steps = 1000 /\ e.source # "manual"
         /\ e.created_at # procs[p].now

\* Row r of collection coll in store S belongs to user U.
BelongsTo(S, coll, r, U) ==
  CASE coll \in { "recipe_ingredients", "recipe_portions" } ->
         \E x \in S.recipes : x.id = r.recipe_id /\ x.user_id = U
    [] coll = "preset_items" ->
         \E x \in S.presets : x.id = r.preset_id /\ x.user_id = U
    [] OTHER -> r.user_id = U

\* Bundle element it is the export of stored row r.
ExportOf(coll, it, r) ==
  IF coll = "daily_activity"
    THEN it.user_id = r.user_id /\ it.date = FormatDate(r.date)
    ELSE it.id = r.id

\* C17: export scope.  The bundle of an export for U lists every food item
\* of the store whoever owns it, and in each of the other eight arrays
\* exactly the stored rows that belong to U (by their user id, or by the owner
\* of their recipe or preset): each such row once, and no other row.
C17_ExportScope ==
  op = "export" =>
    LET U == Bundle.user_id
    IN  \A coll \in Collections :
          LET arr  == Bundle[coll]
              rows == IF coll = "food_items" THEN store[coll]
                      ELSE { r \in store[coll] : BelongsTo(store, coll, r, U) }
          IN  /\ Len(arr) = Cardinality(rows)
              /\ \A r \in rows : \E k \in 1..Len(arr) : ExportOf(coll, arr[k], r)
              /\ \A k \in 1..Len(arr) : \E r \in rows : ExportOf(coll, arr[k], r)

\* An export for U of a store that holds a food item not owned by U, which
\* the bundle lists, and daily activity of U and of another user, of which
\* the bundle lists only U's.
C17_Witness ==
  /\ op = "export"
  /\ \E f \in store.food_items :
       /\ f.user_id # Bundle.user_id
       /\ \E k \in 1..Len(Bundle.food_items) : Bundle.food_items[k].id = f.id
  /\ \E a, b \in store.daily_activity :
       a.user_id = Bundle.user_id /\ b.user_id # Bundle.user_id
  /\ Len(Bundle.daily_activity) = 1

\* C18: the export never returns a partial document.  Every array of a
\* bundle returned with success is the complete result of its query on a
\* store that was committed while the export ran; a read that failed has
\* led to an error response.
C18_ExportNeverPartial ==
  \A e \in Clients :
    Exported(e) =>
      \A coll \in Collections :
        \E S \in procs[e].seen :
          procs[e].out[coll] = ExportArray(S, coll, procs[e].out.user_id)

\* The JSON object that the import handler wrote as its response body.
ImportResponse ==
  IF last.status = 200
    THEN [ ok |-> TRUE, imported_rows |-> last.imported_rows ]
    ELSE [ error |-> last.error ]

\* The import stopped at a row: an Exec of one of the nine loops failed or an
\* activity date did not parse.
RowLevelFailure ==
  Imported /\ last.error \in Collections \cup { "invalid activity date" }

\* C19: import failure report.  The response to an import that stopped at a
\* row names the collection (or the row) that failed and has a member holding
\* the number of rows staged before the failure.
C19_FailureReportCarriesCount ==
  RowLevelFailure =>
    /\ "error" \in DOMAIN ImportResponse
    /\ ImportResponse.error \in Collections \cup { "invalid activity date" }
    /\ \E f \in DOMAIN ImportResponse \ { "error" } :
         ImportResponse[f] = last.imported_rows

\* The number of rows in the nine arrays of the decoded bundle b.
BundleRows(b) ==
  LET RECURSIVE Sum(_)
      Sum(c) == IF c = 0 THEN 0 ELSE Len(b[CollectionOrder[c]]) + Sum(c - 1)
  IN  Sum(Len(CollectionOrder))

\* C20: rows-written count.  The response of a successful import carries
\* imported_rows equal to the number of rows in the nine arrays of the bundle
\* (the ensure-user write is not counted); a response carries imported_rows
\* only when the import has committed: then every bundle row and the
\* effective user are in the store, and an import that failed, at the commit
\* or before, answers without a count.
C20_RowsWrittenCount ==
  Imported =>
    /\ last.status = 200 =>
         /\ ImportResponse.imported_rows = BundleRows(Bundle)
         /\ \E u \in store.users : u.id = last.eff
         /\ \A coll \in Collections : \A k \in 1..Len(Bundle[coll]) :
              Stored(store, coll, Bundle[coll][k]) # {}
    /\ "imported_rows" \in DOMAIN ImportResponse => last.status = 200
    /\ last.error = "tx commit" => DOMAIN ImportResponse = { "error" }

\* A successful import of a bundle with two rows for a user that did not
\* exist: three writes, imported_rows = 2.
C20_Witness ==
  /\ Succeeded
  /\ ImportResponse.imported_rows = 2
  /\ BundleRows(Bundle) = 2
  /\ PlaceholderUser(last.eff, last.now) \in store.users

\* ------------------------------------------- claims on the import sequence
\* C21: malformed bundle.  A body that does not decode is answered with the
\* one error "invalid json" (400) before the transaction is opened (no call
\* to the store is made) and the store stays as it was; a body that decodes
\* is never answered with that error, whatever timestamps or user ids it
\* leaves out.
C21_MalformedBundleRejected ==
  [][ /\ op' = "import_cut" =>
           /\ last'.status = 400 /\ last'.error = "invalid json"
           /\ store' = store
           /\ \A q \in QueryInputs :
                HandleImportData(store, CutOff(doc), q, clock, 0).calls = 0
      /\ op' = "import" =>
           /\ last'.error # "invalid json"
           /\ last'.status = 400 => last'.error = "invalid activity date" ]_vars

\* A cut-off upload of a document with rows was rejected.
C21_Witness ==
  op = "import_cut" /\ last.status = 400 /\ DocRows(doc) > 0

\* Every foreign-key target that a row of bundle b names is a row of b or of
\* store S.
TargetsAvailable(S, b) ==
  LET ids(coll) == { b[coll][k].id : k \in 1..Len(b[coll]) }
                     \cup { r.id : r \in S[coll] }
  IN  /\ \A k \in 1..Len(b.recipe_ingredients) :
           /\ b.recipe_ingredients[k].recipe_id \in ids("recipes")
           /\ b.recipe_ingredients[k].food_item_id \in ids("food_items")
      /\ \A k \in 1..Len(b.recipe_portions) :
           b.recipe_portions[k].recipe_id \in ids("recipes")
      /\ \A k \in 1..Len(b.preset_items) :
           b.preset_items[k].preset_id \in ids("presets")

\* The place of a collection in the fixed write order.
OrderIndex(coll) ==
  CHOOSE c \in 1..Len(CollectionOrder) : CollectionOrder[c] = coll

\* The rows of the open transaction after ensure-user and the first n Exec
\* calls of the loops, none of them failing.
StagedAfter(S, d, rawQuery, now, n) ==
  LET eff == EffectiveUserID(rawQuery, Decode(d).user_id)
      st0 == [ tx |-> EnsureUser(S, eff, now), calls |-> 2, rows |-> 0,
               status |-> 0, error |-> "" ]
  IN  ImportItems(st0, SubSeq(ImportWork(d), 1, n), 1, eff, now, 0)

\* C22: dependency order.  The handler writes user, food_items, recipes,
\* recipe_ingredients, recipe_portions, presets, preset_items, log_entries,
\* body_weights, daily_activity in this order; so when every foreign-key
\* target of the bundle is in the bundle or in the store (and its ids are
\* well-formed), after each Exec every staged row has its targets among the
\* rows of the transaction, no Exec fails, and the import does not end with
\* the error of a collection.
C22_DependencyOrder ==
  [][ ( /\ op' = "import" /\ last'.failAt = 0
        /\ TargetsAvailable(store, Bundle)
        /\ \A i \in 1..Len(ImportWork(doc)) :
             LET w == ImportWork(doc)[i]
             IN  (w.coll = "daily_activity" => DateParses(w.it.date))
                 /\ UUIDsValid(w.coll, InsertRow(w.coll, w.it, last'.eff, last'.now)) )
      => /\ \A i, j \in 1..Len(ImportWork(doc)) :
              i < j => OrderIndex(ImportWork(doc)[i].coll)
                         <= OrderIndex(ImportWork(doc)[j].coll)
         /\ \A n \in 0..Len(ImportWork(doc)) :
              LET st == StagedAfter(store, doc, last'.query, last'.now, n)
              IN  st.status = 0 /\ st.rows = n /\ RefIntegrity(st.tx)
         /\ last'.status = 200 ]_vars

\* The first import into the fresh store succeeded with a recipe portion
\* whose recipe came in the same bundle.
C22_Witness ==
  /\ Succeeded /\ last.failAt = 0 /\ last.now = 1
  /\ Len(Bundle.recipe_portions) = 1 /\ Len(Bundle.recipes) = 1
  /\ Bundle.recipe_portions[1].recipe_id = Bundle.recipes[1].id

\* Row i of the write sequence of document d fails when the handler comes
\* to it: its activity date does not parse, or the store rejects its Exec
\* (the injected fault failAt, a malformed id, a missing foreign-key target).
RowFails(S, d, rawQuery, now, failAt, i) ==
  LET w   == ImportWork(d)[i]
      eff == EffectiveUserID(rawQuery, Decode(d).user_id)
      st  == StagedAfter(S, d, rawQuery, now, i - 1)
  IN  \/ w.coll = "daily_activity" /\ ~DateParses(w.it.date)
      \/ failAt = i + 2
      \/ ~UUIDsValid(w.coll, InsertRow(w.coll, w.it, eff, now))
      \/ ~ForeignKeysHold(st.tx, w.coll, InsertRow(w.coll, w.it, eff, now))

\* C23: first failure is fatal.  When some row of the write sequence fails,
\* the import ends at the first such row i: exactly the i - 1 rows before it
\* were staged, no call to the store follows the failing one, the response is
\* the error of that row and nothing is committed.  A daily_activity row with
\* an unparsable date is such a row: it ends the import with 400 "invalid
\* activity date" before its Exec, whatever was staged before it.
C23_FirstFailureFatal ==
  [][ ( /\ op' = "import" /\ last'.failAt \notin { 1, 2 }
        /\ \E i \in 1..Len(ImportWork(doc)) :
             RowFails(store, doc, last'.query, last'.now, last'.failAt, i) )
      => LET bad(i) == RowFails(store, doc, last'.query, last'.now,
                                last'.failAt, i)
             first  == CHOOSE i \in 1..Len(ImportWork(doc)) :
                         bad(i) /\ \A j \in 1..(i - 1) : ~bad(j)
             w      == ImportWork(doc)[first]
             date   == w.coll = "daily_activity" /\ ~DateParses(w.it.date)
             r      == HandleImportData(store, doc, last'.query, last'.now,
                                        last'.failAt)
         IN  /\ last'.imported_rows = first - 1
             /\ r.calls = IF date THEN first + 1 ELSE first + 2
             /\ last'.status = IF date THEN 400 ELSE 500
             /\ last'.error = IF date THEN "invalid activity date" ELSE w.coll
             /\ store' = store ]_vars

\* An import stopped at an unparsable activity date after it had staged a
\* valid row.
C23_Witness ==
  /\ Imported /\ last.failAt = 0
  /\ last.status = 400 /\ last.error = "invalid activity date"
  /\ last.imported_rows >= 1

\* C24: operation state machine.  An import goes from idle to writing and
\* from writing to its response and then stays as it is; its steps before the
\* response leave the committed store alone; with a success response the
\* store has received all rows of its transaction, and with an error response
\* the store is as it was before that step: nothing of the import is
\* committed.
C24_OperationStateMachine ==
  [][ \A p \in Clients :
        /\ (procs[p].pc = "done") => (procs'[p] = procs[p])
        /\ (procs[p].pc = "idle" /\ ImportOf(p)') => InTx(p)'
        /\ (InTx(p) /\ procs'[p] # procs[p]) =>
             /\ InTx(p)' \/ procs'[p].pc = "done"
             /\ InTx(p)' => store' = store
             /\ (procs'[p].pc = "done" /\ procs'[p].status = 200) =>
                  store' = View(p)
             /\ (procs'[p].pc = "done" /\ procs'[p].status # 200) =>
                  store' = store ]_vars

\* The timestamp columns of a collection that the import fills in.
TimeFields(coll) ==
  CASE coll = "log_entries" -> { "created_at", "occurred_at" }
    [] coll = "body_weights" -> { "created_at", "measured_at" }
    [] OTHER -> { "created_at" }

\* C25: shared operation-now.  After a successful import every bundle row is
\* stored with, in each timestamp column that this import wrote for it, the
\* bundle's value when that is present and otherwise the one time the
\* handler read at its start.  (The import writes occurred_at and measured_at
\* of the last bundle row of a key, and created_at of the first bundle row of
\* a key that had no stored row.)
C25_SharedOperationNow ==
  [][ (op' = "import" /\ last'.status = 200) =>
        \A coll \in Collections :
          LET arr    == Bundle[coll]
              key(i) == KeyOf(coll, arr[i], last'.eff)
          IN  \A k \in 1..Len(arr) : \A f \in TimeFields(coll) :
                LET want   == IF arr[k][f] = ZeroTime THEN last'.now ELSE arr[k][f]
                    writes ==
                      IF f = "created_at"
                        THEN /\ \A j \in 1..(k - 1) : key(j) # key(k)
                             /\ ~\E e \in store[coll] : SameKey(coll, e, key(k))
                        ELSE \A j \in (k + 1)..Len(arr) : key(j) # key(k)
                IN  writes =>
                      \A e \in store'[coll] :
                        SameKey(coll, e, key(k)) => e[f] = want ]_vars

\* One import stored a row without created_at and a log entry or body weight
\* without occurred_at / measured_at: both carry the import's time.
C25_Witness ==
  /\ Succeeded
  /\ \E c1 \in Collections, c2 \in { "log_entries", "body_weights" } :
       /\ c1 # c2
       /\ \E k1 \in 1..Len(Bundle[c1]), k2 \in 1..Len(Bundle[c2]) :
            /\ Bundle[c1][k1].created_at = ZeroTime
            /\ \A f \in TimeFields(c2) : Bundle[c2][k2][f] = ZeroTime
            /\ \E e1 \in store[c1], e2 \in store[c2] :
                 /\ SameKey(c1, e1, ItemKey(c1, Bundle[c1][k1]))
                 /\ SameKey(c2, e2, ItemKey(c2, Bundle[c2][k2]))
                 /\ e1.created_at = last.now
                 /\ \A f \in TimeFields(c2) : e2[f] = last.now

\* C26: absent arrays are empty.  An import that meets no store fault and no
\* failing row succeeds whichever of the nine arrays its document lacks or
\* has empty, and reports the number of rows of the arrays it has; an import
\* leaves every collection whose array is absent or empty as it was; a
\* document with no array at all is imported with a count of 0 and changes no
\* collection other than users.
C26_AbsentArraysAreEmpty ==
  [][ op' = "import" =>
        /\ ( /\ last'.failAt = 0
             /\ \A i \in 1..Len(ImportWork(doc)) :
                  ~RowFails(store, doc, last'.query, last'.now, 0, i) )
           => /\ last'.status = 200
              /\ last'.imported_rows = DocRows(doc)
        /\ \A coll \in Collections :
             Bundle[coll] = << >> => store'[coll] = store[coll]
        /\ (Len(doc.arrays) = 0 /\ last'.failAt = 0) =>
             /\ last'.status = 200 /\ last'.imported_rows = 0
             /\ \A coll \in Collections : store'[coll] = store[coll]
             /\ store.users \subseteq store'.users ]_vars

\* A document without any array was imported for a user that did not exist:
\* count 0, only the users collection changed.
C26_Witness ==
  /\ Succeeded /\ Len(doc.arrays) = 0 /\ last.imported_rows = 0
  /\ PlaceholderUser(last.eff, last.now) \in store.users
  /\ \A coll \in Collections : store[coll] = {}

\* The key of a row of bundle array coll occurs as the key of stored row e.
InBundle(coll, e, eff) ==
  \E k \in 1..Len(Bundle[coll]) :
    SameKey(coll, e, KeyOf(coll, Bundle[coll][k], eff))

\* C27: frame of import.  A successful import keeps every stored row whose
\* key is not in the bundle exactly as it was, keeps a row for every key that
\* had one (nothing is deleted), adds rows only for keys of the bundle, keeps
\* every user row and adds at most one; an export leaves the store as it was.
C27_FrameOfImport ==
  [][ /\ (op' = "import" /\ last'.status = 200) =>
           /\ \A coll \in Collections :
                /\ \A e \in store[coll] :
                     IF InBundle(coll, e, last'.eff)
                       THEN \E x \in store'[coll] : SameKey(coll, x, e)
                       ELSE e \in store'[coll]
                /\ \A x \in store'[coll] :
                     x \in store[coll] \/ InBundle(coll, x, last'.eff)
           /\ store.users \subseteq store'.users
           /\ Cardinality(store'.users \ store.users) <= 1
      /\ op' = "export" => store' = store ]_vars

\* A successful import wrote a daily_activity row and the store still holds
\* another daily_activity row, of a key that the bundle does not have.
C27_Witness ==
  /\ Succeeded /\ Len(Bundle.daily_activity) >= 1
  /\ \E e \in store.daily_activity : ~InBundle("daily_activity", e, last.eff)

\* C28: unowned food items stay unowned.  A successful import stores the food
\* item of a key with owner NULL when the (last) bundle row of the key has no
\* user_id, whatever owner a stored row of that id had, and with the
\* effective user as owner when it has one; an export lists a food item
\* without owner with user_id ""; and a successful import of an exported
\* bundle leaves every food item that had no owner without owner.
C28_UnownedFoodStaysUnowned ==
  [][ /\ (op' = "import" /\ last'.status = 200) =>
           \A k \in 1..Len(Bundle.food_items) :
             (\A j \in (k + 1)..Len(Bundle.food_items) :
                Bundle.food_items[j].id # Bundle.food_items[k].id)
             => \A e \in store'.food_items :
                  e.id = Bundle.food_items[k].id =>
                    e.user_id = IF Bundle.food_items[k].user_id = ""
                                  THEN NULL ELSE last'.eff
      /\ op' = "export" =>
           \A f \in store.food_items :
             f.user_id = NULL =>
               \E k \in 1..Len(Decode(doc').food_items) :
                 /\ Decode(doc').food_items[k].id = f.id
                 /\ Decode(doc').food_items[k].user_id = ""
      /\ (op = "export" /\ op' = "import" /\ last'.status = 200) =>
           \A f \in store.food_items :
             f.user_id = NULL =>
               \E x \in store'.food_items : x.id = f.id /\ x.user_id = NULL ]_vars

\* An exported bundle that lists a food item without owner has been imported
\* again and the stored food item has no owner.
C28_Witness ==
  /\ Succeeded /\ doc.exported_at # ZeroTime
  /\ \E k \in 1..Len(Bundle.food_items) :
       /\ Bundle.food_items[k].user_id = ""
       /\ \E e \in store.food_items :
            e.id = Bundle.food_items[k].id /\ e.user_id = NULL

\* The rows of a collection that user E does not own and some user does.
OwnedByAnother(S, coll, E) ==
  { r \in S[coll] : r.user_id # NULL /\ r.user_id # E }

\* C29: cross-user isolation of import.  An import with effective user E
\* leaves every row that another user owns in the store as it is; in
\* particular so does the import, for E, of the export of E.
C29_CrossUserIsolation ==
  [][ /\ op' = "import" =>
           \A coll \in OwnedCollections :
             OwnedByAnother(store, coll, last'.eff) \subseteq store'[coll]
      /\ (ExportedExistingUser /\ op' = "import" /\ last'.eff = doc.user_id) =>
           \A coll \in OwnedCollections :
             OwnedByAnother(store, coll, doc.user_id) \subseteq store'[coll] ]_vars

\* Two items of the array of a collection are stored under the same key by
\* one import: the same id, or the same date for daily_activity (whose user_id
\* is the effective user for every row).
SameBundleKey(coll, a, b) ==
  IF coll = "daily_activity" THEN a.date = b.date ELSE a.id = b.id

\* Rows i < j of an array have the same key, i is the first and j the last
\* row of the array with that key.
DuplicateKey(coll, arr, i, j) ==
  /\ i < j
  /\ SameBundleKey(coll, arr[i], arr[j])
  /\ \A h \in 1..(i - 1) : ~SameBundleKey(coll, arr[h], arr[i])
  /\ \A h \in (j + 1)..Len(arr) : ~SameBundleKey(coll, arr[h], arr[j])

\* No statement of the import of bundle b into store S has a cause to fail:
\* every id is a UUID, every date parses, every foreign-key target is there.
NoRowCanFail(S, b) ==
  /\ TargetsAvailable(S, b)
  /\ \A coll \in Collections : \A k \in 1..Len(b[coll]) :
       /\ UUIDsValid(coll, b[coll][k])
       /\ coll = "daily_activity" => DateParses(b[coll][k].date)

\* C30 (as claimed): when an array holds two rows with the same key, the
\* import succeeds (no statement having another cause to fail), the stored
\* row has the overwritable fields of the last of them and the created_at of
\* the first, the collection gains at most one row for the key, and
\* imported_rows counts both.
C30_DuplicateKeepsCreatedAtOfFirst ==
  [][ op' = "import" =>
        \A coll \in Collections :
          \A i, j \in 1..Len(Bundle[coll]) :
            LET arr    == Bundle[coll]
                row(k) == InsertRow(coll, arr[k], last'.eff, last'.now)
                before == { e \in store[coll] : SameKey(coll, e, row(j)) }
                after  == { e \in store'[coll] : SameKey(coll, e, row(j)) }
            IN  DuplicateKey(coll, arr, i, j) =>
                  /\ (last'.failAt = 0 /\ NoRowCanFail(store, Bundle))
                       => last'.status = 200
                  /\ last'.status = 200 =>
                       /\ \A e \in after :
                            /\ \A f \in UpdateCols(coll) : e[f] = row(j)[f]
                            /\ e.created_at = row(i).created_at
                       /\ Cardinality(after) = 1
                       /\ Cardinality(after) - Cardinality(before) <= 1
                       /\ last'.imported_rows = DocRows(doc) ]_vars

\* C30 (amended): as above, but the created_at of the stored row is the one
\* the store held under the key before the import and, only when the key was
\* new, the one of the first of the two rows.
C30_DuplicateKeepsEarliestCreatedAt ==
  [][ op' = "import" =>
        \A coll \in Collections :
          \A i, j \in 1..Len(Bundle[coll]) :
            LET arr    == Bundle[coll]
                row(k) == InsertRow(coll, arr[k], last'.eff, last'.now)
                before == { e \in store[coll] : SameKey(coll, e, row(j)) }
                after  == { e \in store'[coll] : SameKey(coll, e, row(j)) }
            IN  DuplicateKey(coll, arr, i, j) =>
                  /\ (last'.failAt = 0 /\ NoRowCanFail(store, Bundle))
                       => last'.status = 200
                  /\ last'.status = 200 =>
                       /\ \A e \in after :
                            /\ \A f \in UpdateCols(coll) : e[f] = row(j)[f]
                            /\ e.created_at \in
                                 IF before # {}
                                   THEN { b.created_at : b \in before }
                                   ELSE { row(i).created_at }
                       /\ Cardinality(after) = 1
                       /\ Cardinality(after) - Cardinality(before) <= 1
                       /\ last'.imported_rows = DocRows(doc) ]_vars

\* A successful import of a bundle with two food items of one id and
\* different names and created_at, into a store that had no row of that id:
\* the stored row has the name of the second and the created_at of the first.
C30_Witness ==
  /\ Succeeded /\ last.imported_rows = 2
  /\ Len(Bundle.food_items) = 2
  /\ Bundle.food_items[1].id = Bundle.food_items[2].id
  /\ Bundle.food_items[1].name # Bundle.food_items[2].name
  /\ \E e \in store.food_items :
       /\ e.id = Bundle.food_items[2].id
       /\ e.name = Bundle.food_items[2].name
       /\ e.created_at = OrNow(Bundle.food_items[1].created_at, last.now)
       /\ e.created_at # OrNow(Bundle.food_items[2].created_at, last.now)

====
